---- MODULE Spec2Model ----
(***************************************************************************)
(* pywayland: the wl_argument codec of protocol_core/message.py, the       *)
(* signature computation of scanner/argument.py, the client Proxy of       *)
(* client/proxy.py and the AnonymousFile of utils.py, as state machines.   *)
(*                                                                         *)
(* Python values are tagged records, so that None, int, float, str, bytes  *)
(* and Proxy values can be told apart as isinstance() tells them apart.    *)
(* A float is carried as its numerator over 512, which is enough to hold   *)
(* every 24.8 value and the half steps between two of them.                *)
(***************************************************************************)
EXTENDS Integers, Sequences, FiniteSets, TLC

VARIABLES
    proxies,     \* the Proxy objects, by handle: [_ptr, _display, cls]
    registry,    \* the identity -> Proxy association, a set of <<identity, handle>>
    allocated,   \* the wl_proxy pointers the native library has handed out
    sent,        \* the requests handed to the transport, in order
    destroyed,   \* the handles on which _destroy has acted
    dstate,      \* the Dispatcher: "Idle" or "Dispatching"
    cur,         \* the event being dispatched
    delivered,   \* the number of listener invocations
    call,        \* the last operation called, its inputs and its outcome
    files,       \* the AnonymousFile objects, by handle: [size, fd]
    finalized,   \* the AnonymousFile handles on which __del__ has run
    fdtable,     \* the descriptor numbers open in the process
    closes       \* per AnonymousFile, the os.close calls on its last opened descriptor

anonymous == <<files, finalized, fdtable, closes>>

vars == <<proxies, registry, allocated, sent, destroyed, dstate, cur, delivered, call,
          anonymous>>

lifecycle == <<proxies, registry, allocated, sent, destroyed, dstate, cur, delivered,
               anonymous>>

(***************************************************************************)
(* Bounds of the model.                                                    *)
(***************************************************************************)
MaxLen == 2        \* longest str / bytes value offered to the codec
MaxProxies == 2    \* Proxy objects created besides the Display
MaxSent == 3       \* requests recorded in the transport log
MaxEvents == 2     \* listener invocations recorded
MaxFiles == 2      \* AnonymousFile objects constructed
MaxCloses == 2     \* os.close calls counted on one opened descriptor

(***************************************************************************)
(* Python values.                                                          *)
(***************************************************************************)
PyNone == [t |-> "None"]
PyInt(n) == [t |-> "int", i |-> n]
PyFloat(k) == [t |-> "float", h |-> k]
PyStr(s) == [t |-> "str", s |-> s]
PyBytes(b) == [t |-> "bytes", b |-> b]
PyProxy(p) == [t |-> "Proxy", p |-> p]

\* Python's == on the values a decoded argument list can hold: 5 == 5.0.
PyEq(a, b) ==
    CASE a.t = "int" /\ b.t = "float" -> a.i * 512 = b.h
      [] a.t = "float" /\ b.t = "int" -> a.h = b.i * 512
      [] OTHER -> a = b

\* cdata pointers: ffi.NULL, or a pointer to something.
NULL == [null |-> TRUE]
CharArray(bytes) == [null |-> FALSE, chars |-> bytes \o <<0>>]
ObjectPtr(addr) == [null |-> FALSE, addr |-> addr]

\* The exception a call ends with, and a value it returns.
Raise(exc) == [exc |-> exc, ok |-> FALSE]
Return(v) == [ok |-> TRUE, v |-> v]

(***************************************************************************)
(* protocol_core Argument and Message descriptors.                         *)
(***************************************************************************)
ArgumentType == {"Int", "Uint", "Fixed", "FileDescriptor", "String", "Object", "NewId", "Array"}

NoInterface == "None"

Argument(argument_type, nullable, interface) ==
    [argument_type |-> argument_type, nullable |-> nullable, interface |-> interface]

Message__init__(name, arguments, version) ==
    [name |-> name, arguments |-> arguments, version |-> version]

\* _marshaled_arguments that forgets the version Uint of an unbound NewId.
RECURSIVE MarshaledArguments_NoVersion(_)
MarshaledArguments_NoVersion(arguments) ==
    IF arguments = <<>> THEN <<>>
    ELSE LET arg == Head(arguments)
         IN  (IF arg.interface = NoInterface /\ arg.argument_type = "NewId"
              THEN <<Argument("String", FALSE, NoInterface)>>
              ELSE <<>>)
             \o <<arg>> \o MarshaledArguments_NoVersion(Tail(arguments))

\* Message._marshaled_arguments: an unbound NewId is preceded by a String and a Uint.
RECURSIVE MarshaledArguments(_)
MarshaledArguments(arguments) ==
    IF arguments = <<>> THEN <<>>
    ELSE LET arg == Head(arguments)
         IN  (IF arg.interface = NoInterface /\ arg.argument_type = "NewId"
              THEN <<Argument("String", FALSE, NoInterface), Argument("Uint", FALSE, NoInterface)>>
              ELSE <<>>)
             \o <<arg>> \o MarshaledArguments(Tail(arguments))

(***************************************************************************)
(* The wl_fixed_t conversions of libwayland, on numerators over 512.       *)
(***************************************************************************)
\* wl_fixed_from_int: i * 256.
wl_fixed_from_int(i) == i * 256

\* wl_fixed_from_double: d + 3 * 2^43 rounds d to a multiple of 1/256, ties to even.
wl_fixed_from_double(h) ==
    LET lo == h \div 2
    IN  IF h % 2 = 0 THEN lo
        ELSE IF lo % 2 = 0 THEN lo ELSE lo + 1

\* wl_fixed_to_double: f / 256.0, as a float.
wl_fixed_to_double(f) == PyFloat(f * 2)

(***************************************************************************)
(* union wl_argument cells.  ffi.new zero-fills; a cell remembers the      *)
(* member it was written through and is read back through a member.        *)
(***************************************************************************)
ZeroCell == [m |-> "zero"]
CellI(v) == [i |-> v, m |-> "i"]
CellU(v) == [m |-> "u", u |-> v]
CellF(v) == [f |-> v, m |-> "f"]
CellH(v) == [h |-> v, m |-> "h"]
CellS(p) == [s |-> p, m |-> "s"]
CellO(p) == [m |-> "o", o |-> p]
CellA(p) == [a |-> p, m |-> "a"]

PointerMembers == {"s", "o", "a"}

ReadMember(cell, m) ==
    IF cell.m = "zero" THEN (IF m \in PointerMembers THEN NULL ELSE 0)
    ELSE cell[cell.m]

\* ffi.new('union wl_argument []', nargs): a live allocation at a non-null address.
NewArgsPtr(addr, nargs) == [addr |-> addr, cells |-> [k \in 1..nargs |-> ZeroCell]]

\* The address of element i (0-based) of the array, as cdata comparison sees it.
ElementAddress(args_ptr, i) == args_ptr.addr + 8 * i

\* int32_t / uint32_t stores of cffi: the value must be an int in range.
StoreInt32(arg) ==
    IF arg.t # "int" THEN Raise("TypeError")
    ELSE IF arg.i < -2147483647 - 1 \/ arg.i > 2147483647 THEN Raise("OverflowError")
    ELSE Return(arg.i)

StoreUint32(arg) ==
    IF arg.t # "int" THEN Raise("TypeError")
    ELSE IF arg.i < 0 THEN Raise("OverflowError")
    ELSE Return(arg.i)

(***************************************************************************)
(* Message.arguments_to_c                                                  *)
(***************************************************************************)
\* struct wl_array as ffi.new leaves it once size and alloc are set: data stays NULL.
NewWlArray(n) == [null |-> FALSE, size |-> n, alloc |-> n, data |-> NULL]

\* ffi.new('void []', n) after ffi.buffer(new_data)[:] = arg.
NewData(bytes) == [null |-> FALSE, bytes |-> bytes]

\* One non-NewId argument: the cell written (write = FALSE when args_ptr[i] is
\* left as it was) and the objects appended to refs.
Stored(cell, refs) == [ok |-> TRUE, cell |-> cell, refs |-> refs, write |-> TRUE]
NotStored(refs) == [ok |-> TRUE, refs |-> refs, write |-> FALSE]

EncodeInt(arg) ==
    LET stored == StoreInt32(arg) IN IF stored.ok THEN Stored(CellI(stored.v), <<>>) ELSE stored

EncodeUint(arg) ==
    LET stored == StoreUint32(arg) IN IF stored.ok THEN Stored(CellU(stored.v), <<>>) ELSE stored

EncodeFileDescriptor(arg) ==
    LET stored == StoreInt32(arg) IN IF stored.ok THEN Stored(CellH(stored.v), <<>>) ELSE stored

EncodeFixed(arg) ==
    IF arg.t = "int" THEN Stored(CellF(wl_fixed_from_int(arg.i)), <<>>)
    ELSE IF arg.t = "float" THEN Stored(CellF(wl_fixed_from_double(arg.h)), <<>>)
    ELSE Raise("TypeError")

EncodeString(argument, arg) ==
    IF arg = PyNone
    THEN IF ~argument.nullable THEN Raise("Exception") ELSE Stored(CellS(NULL), <<>>)
    ELSE IF arg.t # "str" THEN Raise("AttributeError")
    ELSE LET new_arg == CharArray(arg.s) IN Stored(CellS(new_arg), <<new_arg>>)

EncodeObject(argument, arg, pxs) ==
    IF arg = PyNone
    THEN IF ~argument.nullable THEN Raise("Exception") ELSE Stored(CellO(NULL), <<>>)
    ELSE IF arg.t # "Proxy" THEN Raise("AttributeError")
    ELSE IF pxs[arg.p]._ptr = PyNone THEN Raise("TypeError")
    ELSE LET new_arg == ObjectPtr(pxs[arg.p]._ptr.addr) IN Stored(CellO(new_arg), <<new_arg>>)

EncodeArray(arg) ==
    IF arg.t # "bytes" THEN Raise("TypeError")
    ELSE NotStored(<<NewWlArray(Len(arg.b)), NewData(arg.b)>>)

EncodeArgument(argument, arg, pxs) ==
    CASE argument.argument_type = "Int" -> EncodeInt(arg)
      [] argument.argument_type = "Uint" -> EncodeUint(arg)
      [] argument.argument_type = "Fixed" -> EncodeFixed(arg)
      [] argument.argument_type = "FileDescriptor" -> EncodeFileDescriptor(arg)
      [] argument.argument_type = "String" -> EncodeString(argument, arg)
      [] argument.argument_type = "Object" -> EncodeObject(argument, arg, pxs)
      [] argument.argument_type = "Array" -> EncodeArray(arg)
      [] OTHER -> NotStored(<<>>)

\* The loop over enumerate(self._marshaled_arguments): i is the 1-based position in
\* the marshaled arguments, k the position of arg_iter in args.
RECURSIVE EncodeLoop(_, _, _, _, _, _, _)
EncodeLoop(marshaled, args, i, k, args_ptr, refs, pxs) ==
    IF i > Len(marshaled)
    THEN [ok |-> TRUE, args_ptr |-> args_ptr, refs |-> refs]
    ELSE IF marshaled[i].argument_type = "NewId"
    THEN EncodeLoop(marshaled, args, i + 1, k,
                    [args_ptr EXCEPT !.cells[i] = CellO(NULL)], refs, pxs)
    ELSE IF k > Len(args) THEN Raise("StopIteration")
    ELSE LET r == EncodeArgument(marshaled[i], args[k], pxs)
         IN  IF ~r.ok THEN r
             ELSE EncodeLoop(marshaled, args, i + 1, k + 1,
                             IF r.write THEN [args_ptr EXCEPT !.cells[i] = r.cell]
                                        ELSE args_ptr,
                             refs \o r.refs, pxs)

\* arguments_to_c(self, *args), with the address ffi.new returns for the cell
\* array.  refs is the tuple weakkeydict holds for args_ptr (no entry when empty).
arguments_to_c(self, args, addr, pxs) ==
    LET marshaled == MarshaledArguments(self.arguments)
    IN  EncodeLoop(marshaled, args, 1, 1, NewArgsPtr(addr, Len(marshaled)), <<>>, pxs)

(***************************************************************************)
(* Message.c_to_arguments                                                  *)
(***************************************************************************)
\* ffi.string(ptr): the bytes before the first NUL; .decode() maps them to a str.
RECURSIVE ffi_string(_)
ffi_string(chars) ==
    IF chars = <<>> \/ Head(chars) = 0 THEN <<>>
    ELSE <<Head(chars)>> \o ffi_string(Tail(chars))

\* A lookup that ignores the key.
RegistryGet_AnyKey(reg, identity) ==
    IF reg # {} THEN PyProxy((CHOOSE e \in reg : TRUE)[2]) ELSE PyNone

\* registry.get(proxy_ptr)
RegistryGet(reg, identity) ==
    IF \E e \in reg : e[1] = identity
    THEN PyProxy((CHOOSE e \in reg : e[1] = identity)[2])
    ELSE PyNone

DecodeString(argument, args_ptr, i) ==
    IF ElementAddress(args_ptr, i - 1) = 0
    THEN IF ~argument.nullable THEN Raise("Exception") ELSE Return(PyNone)
    ELSE LET s == ReadMember(args_ptr.cells[i], "s")
         IN  IF s.null THEN Raise("RuntimeError") ELSE Return(PyStr(ffi_string(s.chars)))

DecodeObject(self, argument, args_ptr, i, reg) ==
    LET o == ReadMember(args_ptr.cells[i], "o")
    IN  IF o.null
        THEN IF ~argument.nullable THEN Raise("RuntimeError") ELSE Return(PyNone)
        ELSE IF "types" \notin DOMAIN self THEN Raise("AttributeError")
        ELSE LET obj == RegistryGet(reg, o.addr)
             IN  IF obj = PyNone THEN Raise("RuntimeError") ELSE Return(obj)

DecodeArray(args_ptr, i) ==
    LET array_ptr == ReadMember(args_ptr.cells[i], "a")
    IN  IF array_ptr.null THEN Raise("SIGSEGV")
        ELSE IF array_ptr.data.null THEN Raise("SIGSEGV")
        ELSE Return(PyBytes(SubSeq(array_ptr.data.bytes, 1, array_ptr.size)))

DecodeArgument(self, argument, args_ptr, i, reg) ==
    CASE argument.argument_type = "Int" -> Return(PyInt(ReadMember(args_ptr.cells[i], "i")))
      [] argument.argument_type = "Uint" -> Return(PyInt(ReadMember(args_ptr.cells[i], "u")))
      [] argument.argument_type = "Fixed" ->
            Return(wl_fixed_to_double(ReadMember(args_ptr.cells[i], "f")))
      [] argument.argument_type = "FileDescriptor" ->
            Return(PyInt(ReadMember(args_ptr.cells[i], "h")))
      [] argument.argument_type = "String" -> DecodeString(argument, args_ptr, i)
      [] argument.argument_type = "Object" -> DecodeObject(self, argument, args_ptr, i, reg)
      [] argument.argument_type = "NewId" -> Raise("NotImplementedError")
      [] argument.argument_type = "Array" -> DecodeArray(args_ptr, i)
      [] OTHER -> Raise("Exception")

RECURSIVE DecodeLoop(_, _, _, _, _)
DecodeLoop(self, args_ptr, i, args, reg) ==
    IF i > Len(self.arguments) THEN Return(args)
    ELSE IF i > Len(args_ptr.cells) THEN Raise("IndexError")
    ELSE LET r == DecodeArgument(self, self.arguments[i], args_ptr, i, reg)
         IN  IF ~r.ok THEN r ELSE DecodeLoop(self, args_ptr, i + 1, Append(args, r.v), reg)

c_to_arguments(self, args_ptr, reg) == DecodeLoop(self, args_ptr, 1, <<>>, reg)

(***************************************************************************)
(* scanner Argument: construction from an <arg> element, and its signature *)
(***************************************************************************)
\* Python truthiness of an optional attribute: absent (None) is false.
Truthy(x) == x # "None" /\ x # ""

\* Argument.__init__: the attributes are read off the element, nothing more.
ScannerArgument__init__(element) ==
    [interface |-> element.interface, name |-> element.name, type |-> element.type,
     summary |-> element.summary, allow_null |-> element.allow_null,
     enum |-> element.enum]

\* type_to_string that gives every new_id the signature of a bound one.
type_to_string_AlwaysBound(self) ==
    CASE self.type = "int" -> Return("i")
      [] self.type = "uint" -> Return("u")
      [] self.type = "fixed" -> Return("f")
      [] self.type = "string" -> Return("s")
      [] self.type = "object" -> Return("o")
      [] self.type = "new_id" -> Return("n")
      [] self.type = "array" -> Return("a")
      [] self.type = "fd" -> Return("h")
      [] OTHER -> Raise("RuntimeError")

\* type_to_string that falls off its end for an unknown type, returning None.
type_to_string_NoRaise(self) ==
    CASE self.type = "int" -> Return("i")
      [] self.type = "uint" -> Return("u")
      [] self.type = "fixed" -> Return("f")
      [] self.type = "string" -> Return("s")
      [] self.type = "object" -> Return("o")
      [] self.type = "new_id" -> IF Truthy(self.interface) THEN Return("n") ELSE Return("sun")
      [] self.type = "array" -> Return("a")
      [] self.type = "fd" -> Return("h")
      [] OTHER -> Return("None")

type_to_string(self) ==
    CASE self.type = "int" -> Return("i")
      [] self.type = "uint" -> Return("u")
      [] self.type = "fixed" -> Return("f")
      [] self.type = "string" -> Return("s")
      [] self.type = "object" -> Return("o")
      [] self.type = "new_id" -> IF Truthy(self.interface) THEN Return("n") ELSE Return("sun")
      [] self.type = "array" -> Return("a")
      [] self.type = "fd" -> Return("h")
      [] OTHER -> Raise("RuntimeError")

signature(self) ==
    LET r == type_to_string(self)
    IN  IF ~r.ok THEN r
        ELSE IF Truthy(self.allow_null) THEN Return("?" \o r.v) ELSE r

\* The protocol type name of each ArgumentType member.
XmlType(argument_type) ==
    CASE argument_type = "Int" -> "int"
      [] argument_type = "Uint" -> "uint"
      [] argument_type = "Fixed" -> "fixed"
      [] argument_type = "FileDescriptor" -> "fd"
      [] argument_type = "String" -> "string"
      [] argument_type = "Object" -> "object"
      [] argument_type = "NewId" -> "new_id"
      [] argument_type = "Array" -> "array"

\* argument.signature of a Message's argument: the signature of the <arg> it was
\* generated from.
ArgumentSignature(argument) ==
    signature([interface |-> argument.interface, name |-> "arg",
               type |-> XmlType(argument.argument_type), summary |-> "None",
               allow_null |-> IF argument.nullable THEN "true" ELSE "None",
               enum |-> "None"])

\* "".join(argument.signature for argument in self.arguments)
RECURSIVE JoinSignatures(_)
JoinSignatures(arguments) ==
    IF arguments = <<>> THEN Return("")
    ELSE LET h == ArgumentSignature(Head(arguments))
             r == JoinSignatures(Tail(arguments))
         IN  IF ~h.ok THEN h ELSE IF ~r.ok THEN r ELSE Return(h.v \o r.v)

\* Message.build_message_struct: the signature string put in the wl_message.
build_message_struct(self) ==
    LET sig == JoinSignatures(self.arguments)
    IN  IF ~sig.ok THEN sig
        ELSE IF self.version # PyNone THEN Return(ToString(self.version.i) \o sig.v)
        ELSE sig

(***************************************************************************)
(* The generated binding of the wl_destructor interface.                   *)
(***************************************************************************)
WlDestructor == "wl_destructor"

\* WlDestructor.proxy_class
ProxyClass(interface) == IF interface = WlDestructor THEN "WlDestructorProxy" ELSE "Proxy"

create_interface ==
    Message__init__("create_interface",
        <<Argument("NewId", FALSE, WlDestructor), Argument("Int", FALSE, NoInterface),
          Argument("Int", FALSE, NoInterface), Argument("Int", FALSE, NoInterface),
          Argument("Int", FALSE, NoInterface), Argument("Uint", FALSE, NoInterface)>>,
        PyNone)

destroy == Message__init__("destroy", <<>>, PyNone)

\* self._interface.requests of every Proxy of the model: the requests of the one
\* generated interface, by opcode + 1.
requests == <<create_interface, destroy>>

(***************************************************************************)
(* client Proxy                                                            *)
(***************************************************************************)
Cdata(addr) == [t |-> "cdata", addr |-> addr]

\* The dispatcher attribute of a proxy class: None on the Proxy base class.
DispatcherOf(cls) == IF cls = "Proxy" THEN PyNone ELSE [t |-> "Dispatcher", cls |-> cls]

\* dispatcher_to_object[...] = self together with wl_proxy_add_dispatcher(self._ptr, ...):
\* events for the identity now reach self; an item assignment replaces.
SetItem_Add(reg, identity, handle) == reg \cup {<<identity, handle>>}

SetItem(reg, identity, handle) == {e \in reg : e[1] # identity} \cup {<<identity, handle>>}

\* Proxy.__init__(self, ptr, display) for the object that gets handle Len(pxs) + 1.
Proxy__init__(pxs, reg, cls, ptr, display) ==
    LET self == [_ptr |-> ptr, cls |-> cls, _display |-> display]
        handle == Len(pxs) + 1
    IN  IF ptr = PyNone THEN [proxies |-> Append(pxs, self), registry |-> reg, ok |-> TRUE]
        ELSE IF display = PyNone THEN Raise("ValueError")
        ELSE IF DispatcherOf(cls) # PyNone
        THEN [proxies |-> Append(pxs, self), registry |-> SetItem(reg, ptr.addr, handle),
              ok |-> TRUE]
        ELSE [proxies |-> Append(pxs, self), registry |-> reg, ok |-> TRUE]

\* _destroy that leaves the pointer in place.
Proxy_destroy_Keep(self) == self

\* Proxy._destroy
Proxy_destroy(self) == IF self._ptr # PyNone THEN [self EXCEPT !._ptr = PyNone] ELSE self

\* @ensure_valid: a Proxy without a pointer takes no call.
ensure_valid(self) == IF self._ptr = PyNone THEN Raise("ValueError") ELSE Return(PyNone)

\* The display taken to be the caller itself.
RootDisplay_Self(pxs, handle) == PyProxy(handle)

\* self._display or self
RootDisplay(pxs, handle) ==
    IF pxs[handle]._display # PyNone THEN pxs[handle]._display ELSE PyProxy(handle)

\* The pointer wl_proxy_marshal_array_constructor returns: a wl_proxy not handed
\* out before.
NewProxyPtr(alloc) == Cdata(Cardinality(alloc) + 1)

Request(handle, ptr, opcode) == [ptr |-> ptr, opcode |-> opcode, sender |-> handle]

\* Proxy._marshal(self, opcode, *args): the transport log after the call.
Proxy_marshal(pxs, log, handle, opcode, args) ==
    LET valid == ensure_valid(pxs[handle])
    IN  IF ~valid.ok THEN valid
        ELSE LET args_ptr == arguments_to_c(requests[opcode + 1], args, 8, pxs)
             IN  IF ~args_ptr.ok THEN args_ptr
                 ELSE [sent |-> Append(log, Request(handle, pxs[handle]._ptr.addr, opcode)),
                       ok |-> TRUE]

\* Proxy._marshal_constructor(self, opcode, interface, *args)
Proxy_marshal_constructor(pxs, reg, alloc, log, handle, opcode, interface, args) ==
    LET valid == ensure_valid(pxs[handle])
    IN  IF ~valid.ok THEN valid
        ELSE LET display == RootDisplay(pxs, handle)
                 args_ptr == arguments_to_c(requests[opcode + 1], args, 8, pxs)
                 proxy_ptr == NewProxyPtr(alloc)
                 made == Proxy__init__(pxs, reg, ProxyClass(interface), proxy_ptr, display)
             IN  IF ~args_ptr.ok THEN args_ptr
                 ELSE IF ~made.ok THEN made
                 ELSE [proxies |-> made.proxies, registry |-> made.registry,
                       allocated |-> alloc \cup {proxy_ptr.addr},
                       sent |-> Append(log, Request(handle, pxs[handle]._ptr.addr, opcode)),
                       ok |-> TRUE,
                       v |-> PyProxy(Len(made.proxies))]

(***************************************************************************)
(* Registry operations and the Dispatcher.                                 *)
(***************************************************************************)
\* resolve(identity)
resolve(reg, identity) == RegistryGet(reg, identity)

\* register(identity, proxy): DuplicateIdentity when the identity is live.
register(reg, identity, handle) ==
    IF resolve(reg, identity) # PyNone THEN Raise("DuplicateIdentity")
    ELSE [registry |-> reg \cup {<<identity, handle>>}, ok |-> TRUE]

\* unregister(identity)
unregister(reg, identity) == {e \in reg : e[1] # identity}

\* The events of the interface, by opcode + 1.
events ==
    <<Message__init__("done", <<Argument("Uint", FALSE, NoInterface)>>, PyNone),
      Message__init__("parent", <<Argument("Object", TRUE, WlDestructor)>>, PyNone)>>

\* The listener record of a Proxy: the application listens for "done" only.
HasListener(self, name) == name = "done"

NoEvent == [args_ptr |-> NewArgsPtr(8, 0), identity |-> 0, opcode |-> 0]

\* One dispatch: what the Dispatcher does with (identity, opcode, wire cells).
dispatch(pxs, reg, event) ==
    LET target == resolve(reg, event.identity)
    IN  IF target = PyNone THEN [outcome |-> "UnknownObject", invoke |-> FALSE]
        ELSE IF event.opcode + 1 > Len(events) THEN [outcome |-> "InvalidOpcode", invoke |-> FALSE]
        ELSE LET args == c_to_arguments(events[event.opcode + 1], event.args_ptr, reg)
             IN  IF ~args.ok THEN [outcome |-> args.exc, invoke |-> FALSE]
                 ELSE IF HasListener(pxs[target.p], events[event.opcode + 1].name)
                 THEN [outcome |-> "delivered", invoke |-> TRUE]
                 ELSE [outcome |-> "discarded", invoke |-> FALSE]

(***************************************************************************)
(* Inputs offered to the operations.                                       *)
(***************************************************************************)
MaxPtr == MaxProxies + 2

Identities == 1..MaxPtr

\* The identities register() is called with: the first pointers handed to
\* created proxies.
RegisterIds == {2, 3}

Handles == 1..Len(proxies)

RECURSIVE SeqsUpTo(_, _)
SeqsUpTo(S, n) ==
    IF n = 0 THEN {<<>>}
    ELSE SeqsUpTo(S, n - 1) \cup {Append(q, x) : q \in {r \in SeqsUpTo(S, n - 1) : Len(r) = n - 1}, x \in S}

Chars == {0, 97}
Bytes == {0, 255}

ValuesFor(argument, pxs) ==
    {PyNone} \cup
    CASE argument.argument_type = "Int" -> {PyInt(-1), PyInt(0), PyInt(7)}
      [] argument.argument_type = "Uint" -> {PyInt(-1), PyInt(0), PyInt(7)}
      [] argument.argument_type = "Fixed" ->
            {PyInt(-2), PyInt(3)} \cup {PyFloat(h) : h \in {-768, -3, -1, 0, 1, 2, 3, 768}}
      [] argument.argument_type = "FileDescriptor" -> {PyInt(0), PyInt(5)}
      [] argument.argument_type = "String" -> {PyStr(q) : q \in SeqsUpTo(Chars, MaxLen)}
      [] argument.argument_type = "Object" -> {PyProxy(h) : h \in 1..Len(pxs)}
      [] argument.argument_type = "Array" -> {PyBytes(q) : q \in SeqsUpTo(Bytes, MaxLen)}
      [] OTHER -> {}

RECURSIVE ArgLists(_, _)
ArgLists(arguments, pxs) ==
    IF arguments = <<>> THEN {<<>>}
    ELSE IF Head(arguments).argument_type = "NewId" THEN ArgLists(Tail(arguments), pxs)
    ELSE {<<v>> \o rest : v \in ValuesFor(Head(arguments), pxs),
                          rest \in ArgLists(Tail(arguments), pxs)}

\* Every value list of the right types for the marshaled arguments, and the ones
\* that stop short.
ArgChoices(msg, pxs) ==
    LET full == ArgLists(MarshaledArguments(msg.arguments), pxs)
    IN  UNION {{SubSeq(a, 1, n) : n \in 0..Len(a)} : a \in full}

InterfacesOf(argument_type) ==
    CASE argument_type = "NewId" -> {NoInterface, WlDestructor}
      [] argument_type = "Object" -> {WlDestructor}
      [] OTHER -> {NoInterface}

ArgumentDescriptors ==
    {a \in [argument_type : ArgumentType, nullable : BOOLEAN,
            interface : {NoInterface, WlDestructor}] :
        a.interface \in InterfacesOf(a.argument_type)}

bind ==
    Message__init__("bind",
        <<Argument("Uint", FALSE, NoInterface), Argument("NewId", FALSE, NoInterface)>>, PyNone)

CodecMessages ==
    {Message__init__("m", <<a>>, PyNone) : a \in ArgumentDescriptors}
        \cup {bind, destroy,
              Message__init__("m", <<Argument("Int", FALSE, NoInterface),
                                     Argument("Object", TRUE, WlDestructor)>>, PyNone)}

\* Messages whose signature is computed: no argument, one, or one followed by
\* one of four, each unversioned and since version 2.
SecondArguments ==
    {Argument("Object", TRUE, WlDestructor), Argument("NewId", FALSE, NoInterface),
     Argument("Uint", FALSE, NoInterface), Argument("Array", TRUE, NoInterface)}

SignatureMessages ==
    {Message__init__("m", q, v) :
        q \in {<<>>} \cup {<<a>> : a \in ArgumentDescriptors}
                     \cup {<<a, b>> : a \in ArgumentDescriptors, b \in SecondArguments},
        v \in {PyNone, PyInt(2)}}

\* Cells as the transport hands them to c_to_arguments for an event.
WireArray(bytes) == [null |-> FALSE, size |-> Len(bytes), alloc |-> Len(bytes), data |-> NewData(bytes)]

WireCells(argument) ==
    CASE argument.argument_type = "Int" -> {CellI(-1), CellI(7)}
      [] argument.argument_type = "Uint" -> {CellU(0), CellU(7)}
      [] argument.argument_type = "Fixed" -> {CellF(-384), CellF(1)}
      [] argument.argument_type = "FileDescriptor" -> {CellH(5)}
      [] argument.argument_type = "String" -> {CellS(NULL), CellS(CharArray(<<97>>))}
      [] argument.argument_type = "Object" ->
            {CellO(NULL)} \cup {CellO(ObjectPtr(id)) : id \in {2, MaxPtr}}
      [] argument.argument_type = "NewId" -> {CellO(NULL), CellU(7)}
      [] argument.argument_type = "Array" -> {CellA(WireArray(<<255, 0>>))}

WireArgs(addr, cells) == [addr |-> addr, cells |-> cells]

HeapAddrs == {8, 4096}

XmlTypes == {"int", "uint", "fixed", "string", "object", "new_id", "array", "fd"}

Elements ==
    [interface : {"None", WlDestructor}, name : {"arg"},
     type : XmlTypes \cup {"", "float", "newid"},
     summary : {"None"}, allow_null : {"None", "true"}, enum : {"None"}]

(***************************************************************************)
(* The client: Display, generated requests, registry and dispatch.         *)
(***************************************************************************)
NoCall == [op |-> "none", res |-> "ok"]

\* No AnonymousFile has been constructed.
NoFiles ==
    /\ files = <<>>
    /\ finalized = {}
    /\ fdtable = {}
    /\ closes = <<>>

\* Display(): Proxy.__init__ without a pointer.
Init_proxies == Proxy__init__(<<>>, {}, "Display", PyNone, PyNone).proxies

Init ==
    /\ proxies = Init_proxies
    /\ registry = {}
    /\ allocated = {}
    /\ sent = <<>>
    /\ destroyed = {}
    /\ dstate = "Idle"
    /\ cur = NoEvent
    /\ delivered = 0
    /\ call = NoCall
    /\ NoFiles

\* Display.connect(): the Display gets its pointer.
Connect ==
    /\ proxies[1]._ptr = PyNone
    /\ 1 \notin destroyed
    /\ proxies' = [proxies EXCEPT ![1]._ptr = NewProxyPtr(allocated)]
    /\ allocated' = allocated \cup {NewProxyPtr(allocated).addr}
    /\ call' = [op |-> "connect", res |-> "ok"]
    /\ UNCHANGED <<registry, sent, destroyed, dstate, cur, delivered, anonymous>>

\* Argument lists offered to create_interface: a good one, one that stops short,
\* one with None for an Int and one with a negative Uint.
CreateArgs ==
    {<<PyInt(7), PyInt(7), PyInt(7), PyInt(7), PyInt(7)>>,
     <<PyInt(7), PyInt(7), PyInt(7), PyInt(7)>>,
     <<PyInt(7), PyNone, PyInt(7), PyInt(7), PyInt(7)>>,
     <<PyInt(7), PyInt(7), PyInt(7), PyInt(7), PyInt(-1)>>}

\* WlDestructorProxy.create_interface(x, y, width, height, format)
CreateInterface(h, args) ==
    LET r == Proxy_marshal_constructor(proxies, registry, allocated, sent, h, 0,
                                       WlDestructor, args)
    IN  /\ dstate = "Idle"
        /\ r.ok => Len(proxies) <= MaxProxies /\ Len(sent) < MaxSent
        /\ call' = [self |-> h, op |-> "create_interface", res |-> IF r.ok THEN "ok" ELSE r.exc]
        /\ IF r.ok
           THEN /\ proxies' = r.proxies
                /\ registry' = r.registry
                /\ allocated' = r.allocated
                /\ sent' = r.sent
           ELSE UNCHANGED <<proxies, registry, allocated, sent>>
        /\ UNCHANGED <<destroyed, dstate, cur, delivered, anonymous>>

\* WlDestructorProxy.destroy(): self._marshal(1), then self._destroy().
Destroy(h) ==
    LET r == Proxy_marshal(proxies, sent, h, 1, <<>>)
    IN  /\ dstate = "Idle"
        /\ r.ok => Len(sent) < MaxSent
        /\ call' = [self |-> h, op |-> "destroy", res |-> IF r.ok THEN "ok" ELSE r.exc]
        /\ IF r.ok
           THEN /\ sent' = r.sent
                /\ proxies' = [proxies EXCEPT ![h] = Proxy_destroy(@)]
                /\ destroyed' = destroyed \cup {h}
           ELSE UNCHANGED <<sent, proxies, destroyed>>
        /\ UNCHANGED <<registry, allocated, dstate, cur, delivered, anonymous>>

Register(identity, h) ==
    LET r == register(registry, identity, h)
    IN  /\ dstate = "Idle"
        /\ call' = [op |-> "register", res |-> IF r.ok THEN "ok" ELSE r.exc]
        /\ registry' = IF r.ok THEN r.registry ELSE registry
        /\ UNCHANGED <<proxies, allocated, sent, destroyed, dstate, cur, delivered, anonymous>>

Unregister(identity) ==
    /\ dstate = "Idle"
    /\ call' = [op |-> "unregister", res |-> "ok"]
    /\ registry' = unregister(registry, identity)
    /\ UNCHANGED <<proxies, allocated, sent, destroyed, dstate, cur, delivered, anonymous>>

EventChoices ==
    {[args_ptr |-> WireArgs(8, <<c>>), identity |-> id, opcode |-> op] :
        id \in Identities, op \in {0}, c \in WireCells(events[1].arguments[1])}
    \cup {[args_ptr |-> WireArgs(8, <<c>>), identity |-> id, opcode |-> op] :
        id \in Identities, op \in {1}, c \in WireCells(events[2].arguments[1])}
    \cup {[args_ptr |-> WireArgs(8, <<>>), identity |-> id, opcode |-> 2] : id \in Identities}

\* The transport hands the Dispatcher an event: Idle -> Dispatching.
Receive(event) ==
    /\ dstate = "Idle"
    /\ delivered < MaxEvents
    /\ dstate' = "Dispatching"
    /\ cur' = event
    /\ UNCHANGED <<proxies, registry, allocated, sent, destroyed, delivered, call, anonymous>>

\* The event is resolved, decoded and delivered or dropped: Dispatching -> Idle.
Complete ==
    LET d == dispatch(proxies, registry, cur)
    IN  /\ dstate = "Dispatching"
        /\ dstate' = "Idle"
        /\ cur' = NoEvent
        /\ delivered' = IF d.invoke THEN delivered + 1 ELSE delivered
        /\ call' = [op |-> "dispatch", res |-> d.outcome,
                    after |-> IF call.op = "dispatch" THEN call.res ELSE "none"]
        /\ UNCHANGED <<proxies, registry, allocated, sent, destroyed, anonymous>>

Next ==
    \/ Connect
    \/ \E h \in Handles, args \in CreateArgs : CreateInterface(h, args)
    \/ \E h \in Handles : Destroy(h)
    \/ \E id \in RegisterIds, h \in Handles : Register(id, h)
    \/ \E id \in Identities : Unregister(id)

Spec == Init /\ [][Next]_vars

(***************************************************************************)
(* A client that has connected, created two proxies (the second from the   *)
(* first) and destroyed the second: the state the codec and the Dispatcher *)
(* are exercised in.                                                       *)
(***************************************************************************)
GoodCreateArgs == <<PyInt(7), PyInt(7), PyInt(7), PyInt(7), PyInt(7)>>

Connected == [Init_proxies EXCEPT ![1]._ptr = NewProxyPtr({})]

Created1 ==
    Proxy_marshal_constructor(Connected, {}, {NewProxyPtr({}).addr}, <<>>, 1, 0,
                              WlDestructor, GoodCreateArgs)

Created2 ==
    Proxy_marshal_constructor(Created1.proxies, Created1.registry, Created1.allocated,
                              Created1.sent, 2, 0, WlDestructor, GoodCreateArgs)

Configured ==
    /\ proxies = [Created2.proxies EXCEPT ![3] = Proxy_destroy(@)]
    /\ registry = Created2.registry
    /\ allocated = Created2.allocated
    /\ sent = Proxy_marshal(Created2.proxies, Created2.sent, 3, 1, <<>>).sent
    /\ destroyed = {3}
    /\ dstate = "Idle"
    /\ cur = NoEvent
    /\ delivered = 0
    /\ NoFiles

(***************************************************************************)
(* The Dispatcher of a configured client.                                  *)
(***************************************************************************)
DispatchInit == Configured /\ call = NoCall

DispatchNext ==
    \/ \E id \in RegisterIds, h \in Handles : Register(id, h)
    \/ \E id \in Identities : Unregister(id)
    \/ \E e \in EventChoices : Receive(e)
    \/ Complete

DispatchSpec == DispatchInit /\ [][DispatchNext]_vars

(***************************************************************************)
(* The codec and the scanner, called in a configured client.               *)
(***************************************************************************)
CodecInit == Configured /\ call = NoCall

\* message.arguments_to_c(*args)
Encode(msg, args, addr) ==
    /\ call' = [args |-> args, self |-> msg, op |-> "arguments_to_c",
                res |-> arguments_to_c(msg, args, addr, proxies)]
    /\ UNCHANGED lifecycle

\* message.c_to_arguments(args_ptr) on the cell array arguments_to_c just returned.
DecodeEncoded ==
    /\ call.op = "arguments_to_c"
    /\ call.res.ok
    /\ call' = [args_ptr |-> call.res.args_ptr, args |-> call.args, self |-> call.self,
                op |-> "c_to_arguments",
                res |-> c_to_arguments(call.self, call.res.args_ptr, registry),
                from |-> "arguments_to_c"]
    /\ UNCHANGED lifecycle

\* message.c_to_arguments(args_ptr) on the cells of an incoming event.
DecodeEvent(msg, args_ptr) ==
    /\ call' = [args_ptr |-> args_ptr, args |-> <<>>, self |-> msg,
                op |-> "c_to_arguments", res |-> c_to_arguments(msg, args_ptr, registry),
                from |-> "event"]
    /\ UNCHANGED lifecycle

\* message.build_message_struct(wl_message_struct): the signature it stores.
BuildMessageStruct(msg) ==
    /\ call' = [self |-> msg, op |-> "build_message_struct", res |-> build_message_struct(msg)]
    /\ UNCHANGED lifecycle

\* scanner: Argument(element)
ScanArgument(element) ==
    /\ call' = [element |-> element, op |-> "Argument",
                res |-> Return(ScannerArgument__init__(element))]
    /\ UNCHANGED lifecycle

\* scanner: argument.signature of the Argument just constructed.
ScanSignature ==
    /\ call.op = "Argument"
    /\ call.res.ok
    /\ call' = [self |-> call.res.v, op |-> "signature", res |-> signature(call.res.v)]
    /\ UNCHANGED lifecycle

CodecNext ==
    \/ \E msg \in CodecMessages, addr \in HeapAddrs :
          \E args \in ArgChoices(msg, proxies) : Encode(msg, args, addr)
    \/ DecodeEncoded
    \/ \E msg \in {m \in CodecMessages : Len(m.arguments) = 1}, addr \in HeapAddrs :
          \E c \in WireCells(msg.arguments[1]) : DecodeEvent(msg, WireArgs(addr, <<c>>))
    \/ \E msg \in SignatureMessages : BuildMessageStruct(msg)
    \/ \E element \in Elements : ScanArgument(element)
    \/ ScanSignature

CodecSpec == CodecInit /\ [][CodecNext]_vars

(***************************************************************************)
(* utils.py: AnonymousFile and the descriptor table of the process.        *)
(***************************************************************************)
\* The descriptor numbers the process can hand out: 0, 1 and 2 are taken.
Descriptors == 3 .. (MaxFiles + 2)

LowestFree(table) == CHOOSE n \in Descriptors \ table : \A k \in Descriptors \ table : n <= k

\* lib.os_create_anonymous_file(size): the lowest free descriptor, or -1 when
\* the file cannot be created.
os_create_anonymous_file(table, fails) ==
    IF fails \/ Descriptors \ table = {} THEN -1 ELSE LowestFree(table)

\* os.close(fd): TypeError for None, OSError for a number that is not open.
os_close(table, fd) ==
    IF fd = PyNone THEN Raise("TypeError")
    ELSE IF fd.i \notin table THEN Raise("OSError")
    ELSE [fdtable |-> table \ {fd.i}, ok |-> TRUE]

\* What a method leaves behind: the object, the descriptor table, whether it
\* called os.close, and the value it returned or the exception it raised.
Outcome(self, table, issued, res) ==
    [fdtable |-> table, self |-> self, res |-> res, issued |-> issued]

AnonymousFile__init__(size) == [size |-> size, fd |-> PyNone]

\* open(self, size), called with the positional arguments args.
AnonymousFile_open(self, args, table, fails) ==
    IF Len(args) # 1 THEN Outcome(self, table, FALSE, Raise("TypeError"))
    ELSE IF self.fd # PyNone THEN Outcome(self, table, FALSE, Raise("IOError"))
    ELSE LET fd == os_create_anonymous_file(table, fails)
             opened == [self EXCEPT !.fd = PyInt(fd)]
         IN  IF fd < 0 THEN Outcome(opened, table, FALSE, Raise("IOError"))
             ELSE Outcome(opened, table \cup {fd}, FALSE, Return(PyNone))

AnonymousFile_close(self, table) ==
    IF self.fd = PyNone THEN Outcome(self, table, FALSE, Return(PyNone))
    ELSE LET closed == os_close(table, self.fd)
         IN  IF ~closed.ok THEN Outcome(self, table, TRUE, closed)
             ELSE Outcome([self EXCEPT !.fd = PyNone], closed.fdtable, TRUE, Return(PyNone))

\* __del__: the same statements as close; what it raises is reported, not propagated.
AnonymousFile__del__(self, table) ==
    IF self.fd = PyNone THEN Outcome(self, table, FALSE, Return(PyNone))
    ELSE LET closed == os_close(table, self.fd)
         IN  IF ~closed.ok THEN Outcome(self, table, TRUE, closed)
             ELSE Outcome([self EXCEPT !.fd = PyNone], closed.fdtable, TRUE, Return(PyNone))

\* __enter__: self.open() with no argument, then return self.fd.
AnonymousFile__enter__(self, table, fails) ==
    LET opened == AnonymousFile_open(self, <<>>, table, fails)
    IN  IF ~opened.res.ok THEN opened
        ELSE [opened EXCEPT !.res = Return(opened.self.fd)]

\* __exit__: os.close(self.fd), and self.fd is left as it is.
AnonymousFile__exit__(self, table) ==
    LET closed == os_close(table, self.fd)
    IN  IF ~closed.ok THEN Outcome(self, table, TRUE, closed)
        ELSE Outcome(self, closed.fdtable, TRUE, Return(PyNone))

Sizes == {1, 4096}

FileHandles == 1 .. Len(files)

NoFileCall == [self |-> 0, op |-> "none", res |-> Return(PyNone)]

FileInit ==
    /\ Configured
    /\ call = NoFileCall

\* The object holds a number that a successful open gave it.
HoldsDescriptor(self) == self.fd # PyNone /\ self.fd.i >= 0

\* A method of files[f] ran with outcome r.
Ran(f, op, r) ==
    /\ f \notin finalized
    /\ (r.issued /\ HoldsDescriptor(files[f])) => closes[f] < MaxCloses
    /\ files' = [files EXCEPT ![f] = r.self]
    /\ fdtable' = r.fdtable
    /\ closes' = [closes EXCEPT ![f] =
                    IF r.issued /\ HoldsDescriptor(files[f]) THEN @ + 1
                    ELSE IF op \in {"open", "__enter__"} /\ r.res.ok THEN 0
                    ELSE @]
    /\ call' = [self |-> f, op |-> op, res |-> r.res]

\* AnonymousFile(size)
NewFile(size) ==
    /\ Len(files) < MaxFiles
    /\ files' = Append(files, AnonymousFile__init__(size))
    /\ closes' = Append(closes, 0)
    /\ call' = [self |-> Len(files) + 1, op |-> "AnonymousFile", res |-> Return(PyNone)]
    /\ UNCHANGED <<finalized, fdtable>>
    /\ UNCHANGED <<proxies, registry, allocated, sent, destroyed, dstate, cur, delivered>>

Open(f, size, fails) ==
    /\ Ran(f, "open", AnonymousFile_open(files[f], <<size>>, fdtable, fails))
    /\ UNCHANGED finalized
    /\ UNCHANGED <<proxies, registry, allocated, sent, destroyed, dstate, cur, delivered>>

Close(f) ==
    /\ Ran(f, "close", AnonymousFile_close(files[f], fdtable))
    /\ UNCHANGED finalized
    /\ UNCHANGED <<proxies, registry, allocated, sent, destroyed, dstate, cur, delivered>>

Enter(f, fails) ==
    /\ Ran(f, "__enter__", AnonymousFile__enter__(files[f], fdtable, fails))
    /\ UNCHANGED finalized
    /\ UNCHANGED <<proxies, registry, allocated, sent, destroyed, dstate, cur, delivered>>

Exit(f) ==
    /\ Ran(f, "__exit__", AnonymousFile__exit__(files[f], fdtable))
    /\ UNCHANGED finalized
    /\ UNCHANGED <<proxies, registry, allocated, sent, destroyed, dstate, cur, delivered>>

\* The object is collected: __del__ runs, and no method is called after it.
Del(f) ==
    /\ Ran(f, "__del__", AnonymousFile__del__(files[f], fdtable))
    /\ finalized' = finalized \cup {f}
    /\ UNCHANGED <<proxies, registry, allocated, sent, destroyed, dstate, cur, delivered>>

FileNext ==
    \/ \E size \in Sizes : NewFile(size)
    \/ \E f \in FileHandles, size \in Sizes, fails \in BOOLEAN : Open(f, size, fails)
    \/ \E f \in FileHandles : Close(f)
    \/ \E f \in FileHandles, fails \in BOOLEAN : Enter(f, fails)
    \/ \E f \in FileHandles : Exit(f)
    \/ \E f \in FileHandles : Del(f)

FileSpec == FileInit /\ [][FileNext]_vars

(***************************************************************************)
(* Claims about arguments_to_c and c_to_arguments.                         *)
(***************************************************************************)
IsUnboundNewId(argument) ==
    argument.argument_type = "NewId" /\ argument.interface = NoInterface

NotNewId(argument) == argument.argument_type # "NewId"

IsNewId(argument) == argument.argument_type = "NewId"

UnboundNewIds(arguments) == Cardinality({k \in 1..Len(arguments) : IsUnboundNewId(arguments[k])})

ValuesConsumed(marshaled) == Cardinality({k \in 1..Len(marshaled) : NotNewId(marshaled[k])})

\* The declared arguments that are not NewId, in order.
RECURSIVE DeclaredValues(_)
DeclaredValues(arguments) ==
    IF arguments = <<>> THEN <<>>
    ELSE (IF NotNewId(Head(arguments)) THEN <<Head(arguments)>> ELSE <<>>)
         \o DeclaredValues(Tail(arguments))

\* args holds one value per declared non-NewId argument, each one that argument
\* accepts.
OnePerDeclared(msg, args) ==
    LET declared == DeclaredValues(msg.arguments)
    IN  /\ Len(args) = Len(declared)
        /\ \A k \in 1..Len(args) : EncodeArgument(declared[k], args[k], proxies).ok

WireCellCount(msg) == Len(msg.arguments) + 2 * UnboundNewIds(msg.arguments)

\* C1 as stated: a request with an unbound NewId is encoded from one value per
\* declared non-NewId argument; arguments_to_c adds the interface name and the
\* version itself, so bind with (7,) gives four cells.
C1_CallerOmitsNameAndVersion ==
    (/\ call.op = "arguments_to_c"
     /\ UnboundNewIds(call.self.arguments) > 0
     /\ OnePerDeclared(call.self, call.args))
    => /\ call.res.ok
       /\ Len(call.res.args_ptr.cells) = WireCellCount(call.self)

\* C1 amended: arguments_to_c takes one value per marshaled non-NewId cell, the
\* interface name and the version of an unbound NewId included, and fails when
\* the values run out.  bind with (7, name, version) gives the four cells
\* [Uint(7), String(name), Uint(version), Object(NULL)]; bind with (7,) fails.
\* Whenever the call succeeds there are as many cells as declared arguments plus
\* 2 for each unbound NewId, and every NewId cell is NULL.
C1_CallerSuppliesNameAndVersion ==
    call.op = "arguments_to_c" =>
        LET msg == call.self
            marshaled == MarshaledArguments(msg.arguments)
        IN  /\ Len(call.args) < ValuesConsumed(marshaled) => ~call.res.ok
            /\ call.res.ok =>
                 /\ Len(call.res.args_ptr.cells) = WireCellCount(msg)
                 /\ \A i \in 1..Len(marshaled) :
                        IsNewId(marshaled[i]) => call.res.args_ptr.cells[i] = CellO(NULL)
            /\ (msg = bind /\ call.args = <<PyInt(7)>>) => ~call.res.ok
            /\ (/\ msg = bind
                /\ Len(call.args) = 3
                /\ call.args[1] = PyInt(7)
                /\ call.args[2].t = "str"
                /\ call.args[3].t = "int"
                /\ call.args[3].i >= 0)
               => /\ call.res.ok
                  /\ call.res.args_ptr.cells =
                        <<CellU(7), CellS(CharArray(call.args[2].s)),
                          CellU(call.args[3].i), CellO(NULL)>>

\* bind encoded from (7, "a", 7).
C1_Witness ==
    /\ call.op = "arguments_to_c"
    /\ call.self = bind
    /\ call.args = <<PyInt(7), PyStr(<<97>>), PyInt(7)>>
    /\ call.res.ok

\* The values of a type's valid domain: an int in range, a 24.8 value, a str
\* without NUL, bytes, a live Proxy.
InValidDomain(argument, v) ==
    CASE argument.argument_type \in {"Int", "FileDescriptor"} -> v.t = "int"
      [] argument.argument_type = "Uint" -> v.t = "int" /\ v.i >= 0
      [] argument.argument_type = "Fixed" -> v.t = "int" \/ (v.t = "float" /\ v.h % 2 = 0)
      [] argument.argument_type = "String" -> v.t = "str" /\ \A k \in 1..Len(v.s) : v.s[k] # 0
      [] argument.argument_type = "Object" -> v.t = "Proxy" /\ proxies[v.p]._ptr # PyNone
      [] argument.argument_type = "Array" -> v.t = "bytes"
      [] OTHER -> FALSE

IsRoundTrip ==
    /\ call.op = "c_to_arguments"
    /\ call.from = "arguments_to_c"
    /\ Len(call.self.arguments) = 1
    /\ Len(call.args) = 1

\* C2: for a message with one argument of a type other than NewId and a value v
\* of the type's valid domain, c_to_arguments on the cells arguments_to_c made
\* returns [v].
C2_RoundTrip ==
    (IsRoundTrip /\ InValidDomain(call.self.arguments[1], call.args[1]))
    => /\ call.res.ok
       /\ Len(call.res.v) = 1
       /\ PyEq(call.res.v[1], call.args[1])

\* C12: arguments_to_c on an Array argument given the bytes b: the cell at the
\* argument's position references a wl_array whose size and alloc are len(b)
\* and whose data holds the bytes of b, and the wl_array and its data buffer
\* are both among the references kept alive with the cell array.
C12_ArrayEncoding ==
    (/\ call.op = "arguments_to_c"
     /\ call.res.ok
     /\ \A i \in 1..Len(call.self.arguments) : NotNewId(call.self.arguments[i]))
    => \A i \in 1..Len(call.self.arguments) :
          call.self.arguments[i].argument_type = "Array"
          => LET cell == call.res.args_ptr.cells[i]
                 b == call.args[i].b
                 refs == call.res.refs
             IN  /\ cell.m = "a"
                 /\ ~cell.a.null
                 /\ cell.a.size = Len(b)
                 /\ cell.a.alloc = Len(b)
                 /\ ~cell.a.data.null
                 /\ cell.a.data.bytes = b
                 /\ \E j, k \in 1..Len(refs) : refs[j] = cell.a /\ refs[k] = cell.a.data

\* A message with one String or Object argument, given None.
IsNoneCase ==
    /\ Len(call.self.arguments) = 1
    /\ call.self.arguments[1].argument_type \in {"String", "Object"}
    /\ call.args = <<PyNone>>

\* C3: None for a String or Object argument is refused when the argument is not
\* nullable; when it is nullable the cell holds NULL and c_to_arguments gives
\* None back, for String as for Object.
C3_Nullability ==
    /\ (call.op = "arguments_to_c" /\ IsNoneCase) =>
          IF call.self.arguments[1].nullable
          THEN call.res.ok /\ call.res.args_ptr.cells[1] \in {CellS(NULL), CellO(NULL)}
          ELSE ~call.res.ok
    /\ (call.op = "c_to_arguments" /\ call.from = "arguments_to_c" /\ IsNoneCase) =>
          call.res.ok /\ call.res.v = <<PyNone>>

\* C8: an Object argument of an event decodes to the Proxy registered under the
\* identity; an identity that is not registered fails, NULL gives None when the
\* argument is nullable and fails when it is not.
C8_ObjectDecode ==
    (/\ call.op = "c_to_arguments"
     /\ call.from = "event"
     /\ call.self.arguments[1].argument_type = "Object")
    => LET o == call.args_ptr.cells[1].o
           registered == {e \in registry : ~o.null /\ e[1] = o.addr}
       IN  /\ (~o.null /\ registered # {}) =>
                 call.res.ok /\ \E e \in registered : call.res.v = <<PyProxy(e[2])>>
           /\ (~o.null /\ registered = {}) => ~call.res.ok
           /\ o.null => IF call.self.arguments[1].nullable
                        THEN call.res.ok /\ call.res.v = <<PyNone>>
                        ELSE ~call.res.ok

(***************************************************************************)
(* Claims about signatures and the scanner's Argument.                     *)
(***************************************************************************)
SignatureOfType ==
    [Int |-> "i", Uint |-> "u", Fixed |-> "f", FileDescriptor |-> "h", String |-> "s",
     Object |-> "o", Array |-> "a"]

SignatureOfXmlType ==
    [fd |-> "h", int |-> "i", uint |-> "u", fixed |-> "f", string |-> "s", object |-> "o",
     array |-> "a"]

Prefixed(nullable, sig) == IF nullable THEN "?" \o sig ELSE sig

ExpectedArgument(argument) ==
    Prefixed(argument.nullable,
             IF argument.argument_type = "NewId"
             THEN (IF argument.interface = NoInterface THEN "sun" ELSE "n")
             ELSE SignatureOfType[argument.argument_type])

RECURSIVE ExpectedArguments(_)
ExpectedArguments(arguments) ==
    IF arguments = <<>> THEN ""
    ELSE ExpectedArgument(Head(arguments)) \o ExpectedArguments(Tail(arguments))

C10_ConstructionFails ==
    (call.op = "Argument" /\ call.element.type \notin XmlTypes) => ~call.res.ok

\* C10 amended: an Argument is constructed whatever its type string is; it is
\* computing its signature that fails, with RuntimeError, exactly when the type
\* is not one of the recognized kinds.
C10_SignatureFails ==
    /\ call.op = "Argument" => call.res.ok /\ call.res.v.type = call.element.type
    /\ call.op = "signature" =>
          /\ call.res.ok <=> call.self.type \in XmlTypes
          /\ ~call.res.ok => call.res.exc = "RuntimeError"

\* The signature of an Argument of type "float" was asked for.
C10_Witness ==
    /\ call.op = "signature"
    /\ call.self.type = "float"
    /\ call.res = Raise("RuntimeError")

(***************************************************************************)
(* Claims about the Proxy life cycle, the registry and the Dispatcher.     *)
(***************************************************************************)
\* The Proxy a successful create_interface call returns, as the claim has it.
ConstructedProxy(h) ==
    LET n == Len(proxies')
        fresh == allocated' \ allocated
    IN  /\ n = Len(proxies) + 1
        /\ SubSeq(proxies', 1, n - 1) = proxies
        /\ Cardinality(fresh) = 1
        /\ \A id \in fresh :
              /\ proxies'[n]._ptr = Cdata(id)
              /\ {e \in registry' : e[1] = id} = {<<id, n>>}
              /\ sent' = Append(sent, Request(h, proxies[h]._ptr.addr, 0))
        /\ proxies'[n].cls = "WlDestructorProxy"
        /\ proxies'[n]._display = PyProxy(1)
        /\ proxies'[1].cls = "Display"

\* C5: a _marshal_constructor call that completes returns a new Proxy of the
\* interface's proxy class, carrying the pointer the constructor marshal call
\* returned, registered under it, and owned by the root Display; no pointer has
\* been handed out without a Proxy made for it.
C5_ConstructorFlow ==
    /\ [][\A h \in Handles, args \in CreateArgs :
            (CreateInterface(h, args) /\ call'.res = "ok") => ConstructedProxy(h)]_vars
    /\ [](allocated = {} \/ Cardinality(allocated) = Len(proxies))

\* A Proxy has been created by a request of a Proxy that is not the Display.
C5_Witness ==
    /\ call.op = "create_interface"
    /\ call.self = 2
    /\ call.res = "ok"
    /\ Len(proxies) = 3

RegistryUnique == \A e1 \in registry, e2 \in registry : e1[1] = e2[1] => e1 = e2

SentBy(h, log) == SelectSeq(log, LAMBDA r : r.sender = h)

DestructorsBy(h, log) == SelectSeq(log, LAMBDA r : r.sender = h /\ r.opcode = 1)

\* C7: once destroy() has run on a Proxy, every later request on it is rejected
\* and nothing more is sent for it; the destructor request is sent, under the
\* Proxy's pointer, in the very call that invalidates it, and it is sent once.
C7_NoMarshalAfterDestroy ==
    /\ [](\A h \in Handles :
            /\ Len(DestructorsBy(h, sent)) <= 1
            /\ h \in destroyed => Len(DestructorsBy(h, sent)) = 1 /\ proxies[h]._ptr = PyNone)
    /\ [][\A h \in destroyed : SentBy(h, sent') = SentBy(h, sent)]_vars
    /\ [][\A h \in destroyed :
            (Destroy(h) \/ \E args \in CreateArgs : CreateInterface(h, args))
            => call'.res = "ValueError" /\ sent' = sent /\ proxies' = proxies]_vars
    /\ [][\A h \in Handles :
            (Destroy(h) /\ call'.res = "ok")
            => /\ proxies[h]._ptr # PyNone
               /\ sent' = Append(sent, Request(h, proxies[h]._ptr.addr, 1))
               /\ proxies'[h]._ptr = PyNone]_vars

\* A request was made on a destroyed Proxy and rejected.
C7_Witness ==
    /\ call.op \in {"destroy", "create_interface"}
    /\ call.self \in destroyed
    /\ call.self # 1
    /\ call.res = "ValueError"
    /\ Len(DestructorsBy(call.self, sent)) = 1

\* C9: an event for an identity that is not registered is dropped: no error
\* leaves the Dispatcher, no listener runs, the registry is as it was and the
\* Dispatcher is Idle again, ready for the next event.
C9_UnknownObjectDropped ==
    /\ [][(Complete /\ ~\E e \in registry : e[1] = cur.identity)
            => /\ call'.res = "UnknownObject"
               /\ delivered' = delivered
               /\ registry' = registry
               /\ dstate' = "Idle"]_vars
    /\ []((dstate = "Idle" /\ delivered < MaxEvents)
            => ENABLED (\E e \in EventChoices : Receive(e)))

\* An event for an unknown identity was dropped, and the next one was delivered.
C9_Witness ==
    /\ call.op = "dispatch"
    /\ call.after = "UnknownObject"
    /\ call.res = "delivered"
    /\ dstate = "Idle"
    /\ delivered = 1
(***************************************************************************)
(* Claims about AnonymousFile.                                             *)
(***************************************************************************)
\* C11: AnonymousFile is a context manager: __enter__ on a file that is not
\* open, when the anonymous file can be created, opens it and returns its
\* descriptor, which is not None, is the fd property and is open; the __exit__
\* that leaves the block closes that descriptor.
C11_ContextManager ==
    [][\A f \in FileHandles :
          /\ (Enter(f, FALSE) /\ files[f].fd = PyNone)
                => /\ call'.res.ok
                   /\ call'.res.v # PyNone
                   /\ call'.res.v = files'[f].fd
                   /\ call'.res.v.i \in fdtable'
          /\ (Exit(f) /\ call.op = "__enter__" /\ call.self = f /\ call.res.ok)
                => call.res.v.i \notin fdtable']_vars
\* The file holds a descriptor it opened and has not closed.
IsOpen(f) == HoldsDescriptor(files[f]) /\ closes[f] = 0

\* C13: over every sequence of open, close, __enter__, __exit__ and __del__
\* calls, os.close is called at most once on each descriptor a successful open
\* obtained, and close on a file that is not open does nothing.
C13_ClosedAtMostOnce ==
    [][\A f \in FileHandles :
          /\ closes'[f] <= 1
          /\ (Close(f) /\ ~IsOpen(f))
                => /\ call'.res = Return(PyNone)
                   /\ UNCHANGED <<files, fdtable, closes>>]_vars
====
